---- MODULE Spec2Model ----
(***************************************************************************)
(* Model of the chatme-be real-time messaging engine                       *)
(* (src/src/socket/socketHandler.ts and the mongoose models it uses).      *)
(*                                                                         *)
(* Every socket.io event handler is an async function.  Node runs the code *)
(* between two awaits atomically, so a handler is modelled as a task whose *)
(* pc names the store operation it is awaiting; one action = the awaited   *)
(* store operation taking effect plus the synchronous code that follows it *)
(* up to the next await.  Tasks of different events interleave freely.     *)
(*                                                                         *)
(* Identifiers (user ids, chat room ids) are strings, modelled as          *)
(* sequences of UTF-16 code units so that sorting and concatenation are    *)
(* computed as the code computes them.                                     *)
(***************************************************************************)
EXTENDS Integers, Sequences, FiniteSets, TLC

(***************************************************************************)
(* Bounds of the model                                                     *)
(***************************************************************************)
MaxConns == 2
MaxJoins == 2
MaxSends == 2
MaxSeens == 1
MaxDeletes == 2
MaxEdits == 1
MaxHistories == 1
MaxTime == 1
MaxIdLen == 2
MaxRequests == 3

(***************************************************************************)
(* Strings as sequences of code units                                      *)
(***************************************************************************)
Underscore == <<95>>
A == <<97>>
B == <<98>>
C == <<99>>
IdChars == {95, 97}

None == "none"
\* absent values, of the type of the present ones
NoUser == <<>>
NoSocket == 0
NoId == 0

UserIds == {A, B, C}
\* users that have a User document (created by the authentication routes)
Registered == {A, B}

Conns == 1..MaxConns

\* JavaScript's < on strings: lexicographic on code units, a proper prefix is smaller
RECURSIVE StrLess(_, _)
StrLess(s, t) ==
  IF Len(t) = 0 THEN FALSE
  ELSE IF Len(s) = 0 THEN TRUE
  ELSE IF Head(s) # Head(t) THEN Head(s) < Head(t)
  ELSE StrLess(Tail(s), Tail(t))

\* [x, y].sort() with the default comparator: swaps only when y < x
SortPair(x, y) == IF StrLess(y, x) THEN <<y, x>> ELSE <<x, y>>

UnsortedPair(x, y) == <<x, y>>

sortedIds(userId1, userId2) == SortPair(userId1, userId2)

generateChatRoomId(userId1, userId2) ==
  sortedIds(userId1, userId2)[1] \o Underscore \o sortedIds(userId1, userId2)[2]

\* all identifier strings of length 1..MaxIdLen over IdChars
RECURSIVE StringsOfLen(_)
StringsOfLen(n) ==
  IF n = 0 THEN {<<>>}
  ELSE {<<ch>> \o s : ch \in IdChars, s \in StringsOfLen(n - 1)}

IdStrings == UNION {StringsOfLen(n) : n \in 1..MaxIdLen}

(***************************************************************************)
(* State                                                                   *)
(***************************************************************************)
VARIABLES
  sockets,    \* socket id -> [state, userId, rooms]: the live connections
  users,      \* User collection: userId -> [isOnline, socketId, lastSeen]
  messages,   \* Message collection: _id -> document
  chatRooms,  \* ChatRoom collection: sequence of documents
  tasks,      \* handler invocations by kind, in order of arrival, with their pc
  inbox,      \* socket id -> sequence of events the client has received
  now,        \* the clock read by new Date()
  calls       \* recorded applications of pure functions

vars == <<sockets, users, messages, chatRooms, tasks, inbox, now, calls>>

SENT == "sent"
DELIVERED == "delivered"
SEEN == "seen"
MessageStatus == {SENT, DELIVERED, SEEN}

NONE == "none"
FOR_ME == "for_me"
FOR_BOTH == "for_both"
DeleteType == {NONE, FOR_ME, FOR_BOTH}

\* the handlers that suspend on the store
Kinds == {"join", "disconnect", "send", "seen", "edit", "delete", "history"}

Init ==
  /\ sockets = [c \in Conns |-> [state |-> "none", userId |-> NoUser, rooms |-> {}]]
  /\ users = [u \in Registered |-> [isOnline |-> FALSE, socketId |-> NoSocket, lastSeen |-> 0]]
  /\ messages = <<>>
  /\ chatRooms = <<>>
  /\ tasks = [k \in Kinds |-> <<>>]
  /\ inbox = [c \in Conns |-> <<>>]
  /\ now = 0
  /\ calls = <<>>

(***************************************************************************)
(* Transport: who receives an emission                                     *)
(***************************************************************************)
IsOpen(c) == sockets[c].state = "open"

\* io.to(room): every connected socket that joined the room
RoomSockets(room) == {c \in Conns : IsOpen(c) /\ room \in sockets[c].rooms}

\* socket.emit: the socket itself, nothing once it is disconnected
SelfSocket(c) == IF IsOpen(c) THEN {c} ELSE {}

\* socket.broadcast: every connected socket but this one
BroadcastSockets(c) == {d \in Conns : IsOpen(d) /\ d # c}

\* an emitted event: its name and its payload (message ids, a user id, a text: a
\* status, a message body or an error message, and a list of messages)
Event(ev, ids, user, text) == [ev |-> ev, ids |-> ids, user |-> user, text |-> text,
                               list |-> <<>>]

\* one emission: the event is appended once to the inbox of every target
EmitTo(inb, targets, e) ==
  [c \in Conns |-> IF c \in targets THEN Append(inb[c], e) ELSE inb[c]]

\* number of occurrences of an event in a sequence
Count(seq, e) == Cardinality({i \in 1..Len(seq) : seq[i] = e})

(***************************************************************************)
(* Tasks                                                                   *)
(***************************************************************************)
\* a Message document as the schema builds it (models/Message.ts lines 28-41)
NewMessage(chatRoomId, senderId, receiverId, message, replyTo, timestamp) ==
  [chatRoomId |-> chatRoomId, senderId |-> senderId, receiverId |-> receiverId,
   message |-> message, status |-> SENT, timestamp |-> timestamp,
   replyTo |-> replyTo, isEdited |-> FALSE, deletedFor |-> <<>>,
   deleteType |-> NONE, v |-> 0]

NoDoc == NewMessage(<<>>, NoUser, NoUser, "", NoId, 0)

Task(kind, c, pc, userId, peer, body, replyTo, ids, scope) ==
  [kind |-> kind, conn |-> c, pc |-> pc, userId |-> userId, peer |-> peer,
   body |-> body, replyTo |-> replyTo, ids |-> ids, scope |-> scope, doc |-> NoDoc,
   peerLive |-> FALSE, peerJoined |-> FALSE]

NumTasks(kind) == Len(tasks[kind])

Start(kind, task) == [tasks EXCEPT ![kind] = Append(@, task)]

SetPc(kind, t, pc) == [tasks EXCEPT ![kind][t].pc = pc]

Finish(kind, t) == [tasks EXCEPT ![kind][t].pc = "done", ![kind][t].doc = NoDoc]

InFlight(task) == task.pc \notin {"done", "failed", "rejected"}

\* history kept for the send tasks in flight: peerLive records that since the event
\* arrived the receiver has had a live connection, or that a join or disconnect of
\* the receiver was still in flight when it arrived; peerJoined records that the
\* receiver had a joined live connection when it arrived
NoteLive(ts, u) ==
  [ts EXCEPT !.send = [i \in DOMAIN @ |->
                         IF @[i].peer = u /\ InFlight(@[i])
                         THEN [@[i] EXCEPT !.peerLive = TRUE]
                         ELSE @[i]]]

\* an event of a client arrives on socket c: only connected sockets deliver events
Arrives(c) == IsOpen(c)

(***************************************************************************)
(* io.on('connection')                                                     *)
(***************************************************************************)
Connect(c) ==
  /\ sockets[c].state = "none"
  /\ \A d \in Conns : d < c => sockets[d].state # "none"
  /\ sockets' = [sockets EXCEPT ![c].state = "open"]
  /\ UNCHANGED <<users, messages, chatRooms, tasks, inbox, now, calls>>

(***************************************************************************)
(* socket.on('join')                                                       *)
(***************************************************************************)
\* socket.join(room); on a socket that is gone the membership reaches nobody
JoinRoom(socks, c, room) ==
  IF socks[c].state = "open"
  THEN [socks EXCEPT ![c].rooms = @ \cup {room}]
  ELSE socks

\* lines 40-53: join the personal room, tell the others
JoinTail(t) ==
  /\ sockets' = JoinRoom(sockets, tasks.join[t].conn, tasks.join[t].userId)
  /\ inbox' = EmitTo(inbox, BroadcastSockets(tasks.join[t].conn),
                     Event("user-online", {}, tasks.join[t].userId, ""))
  /\ tasks' = Finish("join", t)

JoinStart(c, u) ==
  /\ Arrives(c)
  /\ NumTasks("join") < MaxJoins
  /\ sockets' = [sockets EXCEPT ![c].userId = u]
  /\ tasks' = NoteLive(Start("join", Task("join", c, "findUser", u, NoUser, None, NoId,
                                         {}, None)), u)
  /\ UNCHANGED <<users, messages, chatRooms, inbox, now, calls>>

JoinFindUser(t) ==
  /\ t \in DOMAIN tasks.join
  /\ tasks.join[t].pc = "findUser"
  /\ IF tasks.join[t].userId \in DOMAIN users
     THEN /\ tasks' = SetPc("join", t, "updateUser")
          /\ UNCHANGED <<sockets, inbox>>
     ELSE JoinTail(t)
  /\ UNCHANGED <<users, messages, chatRooms, now, calls>>

\* a join that also marks the messages waiting for the user as delivered
JoinDelivers(t) ==
  /\ t \in DOMAIN tasks.join
  /\ tasks.join[t].pc = "updateUser"
  /\ users' = [users EXCEPT ![tasks.join[t].userId] =
                 [isOnline |-> TRUE, socketId |-> tasks.join[t].conn, lastSeen |-> now]]
  /\ messages' = [id \in DOMAIN messages |->
                    IF messages[id].receiverId = tasks.join[t].userId
                       /\ messages[id].status = SENT
                    THEN [messages[id] EXCEPT !.status = DELIVERED]
                    ELSE messages[id]]
  /\ JoinTail(t)
  /\ UNCHANGED <<chatRooms, now, calls>>

JoinUpdateUser(t) ==
  /\ t \in DOMAIN tasks.join
  /\ tasks.join[t].pc = "updateUser"
  /\ users' = [users EXCEPT ![tasks.join[t].userId] =
                 [isOnline |-> TRUE, socketId |-> tasks.join[t].conn, lastSeen |-> now]]
  /\ JoinTail(t)
  /\ UNCHANGED <<messages, chatRooms, now, calls>>

\* lines 54-56: a store operation of the join throws; the catch block logs
JoinFail(t) ==
  /\ t \in DOMAIN tasks.join
  /\ tasks.join[t].pc \in {"findUser", "updateUser"}
  /\ tasks' = [tasks EXCEPT !.join[t].pc = "failed"]
  /\ UNCHANGED <<sockets, users, messages, chatRooms, inbox, now, calls>>

(***************************************************************************)
(* socket.on('disconnect')                                                 *)
(***************************************************************************)
\* the socket has left all its rooms when the handler runs
Disconnect(c) ==
  /\ IsOpen(c)
  /\ sockets' = [sockets EXCEPT ![c].state = "closed", ![c].rooms = {}]
  /\ tasks' = IF sockets[c].userId # NoUser
              THEN Start("disconnect", Task("disconnect", c, "updateUser",
                                            sockets[c].userId, NoUser, None, NoId, {},
                                            None))
              ELSE tasks
  /\ UNCHANGED <<users, messages, chatRooms, inbox, now, calls>>

MarkOffline(us, u, t) ==
  IF u \in DOMAIN us
  THEN [us EXCEPT ![u].isOnline = FALSE, ![u].lastSeen = t]
  ELSE us

DisconnectUpdateUser(t) ==
  /\ t \in DOMAIN tasks.disconnect
  /\ tasks.disconnect[t].pc = "updateUser"
  /\ users' = MarkOffline(users, sockets[tasks.disconnect[t].conn].userId, now)
  /\ inbox' = EmitTo(inbox, BroadcastSockets(tasks.disconnect[t].conn),
                     Event("user-offline", {}, sockets[tasks.disconnect[t].conn].userId, ""))
  /\ tasks' = Finish("disconnect", t)
  /\ UNCHANGED <<sockets, messages, chatRooms, now, calls>>

(***************************************************************************)
(* socket.on('send-message')                                               *)
(***************************************************************************)
\* schema validation of save(): message is a required string
ValidMessage(doc) == doc.message # ""

RoomIndexes(rooms, chatRoomId) ==
  {i \in 1..Len(rooms) : rooms[i].chatRoomId = chatRoomId}

\* a store that inserts without looking for the key
InsertRoom(rooms, chatRoomId, participants, t) ==
  Append(rooms, [chatRoomId |-> chatRoomId, participants |-> participants,
                 lastMessage |-> NoId, lastMessageTime |-> t])

\* ChatRoom.findOneAndUpdate({chatRoomId}, {...}, {upsert: true}); chatRoomId is a
\* unique index, so the store holds the matching document or inserts one
UpsertRoom(rooms, chatRoomId, participants, t) ==
  IF RoomIndexes(rooms, chatRoomId) # {}
  THEN LET i == CHOOSE j \in RoomIndexes(rooms, chatRoomId) :
                  \A k \in RoomIndexes(rooms, chatRoomId) : j <= k
       IN [rooms EXCEPT ![i].participants = participants, ![i].lastMessageTime = t]
  ELSE Append(rooms, [chatRoomId |-> chatRoomId, participants |-> participants,
                      lastMessage |-> NoId, lastMessageTime |-> t])

\* ChatRoom.findOneAndUpdate({chatRoomId}, {lastMessage, lastMessageTime})
SetLastMessage(rooms, chatRoomId, id, t) ==
  IF RoomIndexes(rooms, chatRoomId) # {}
  THEN LET i == CHOOSE j \in RoomIndexes(rooms, chatRoomId) :
                  \A k \in RoomIndexes(rooms, chatRoomId) : j <= k
       IN [rooms EXCEPT ![i].lastMessage = id, ![i].lastMessageTime = t]
  ELSE rooms

\* the open sockets that announced themselves as u or sit in u's room
LiveConnections(u) ==
  {c \in Conns : IsOpen(c) /\ (sockets[c].userId = u \/ u \in sockets[c].rooms)}

PresenceUnsettled(u) ==
  \/ LiveConnections(u) # {}
  \/ \E k \in {"join", "disconnect"} : \E t \in DOMAIN tasks[k] :
       tasks[k][t].userId = u /\ InFlight(tasks[k][t])

SendStart(c, senderId, receiverId, message, replyTo) ==
  /\ Arrives(c)
  /\ NumTasks("send") < MaxSends
  /\ tasks' = Start("send", [Task("send", c, "upsertRoom", senderId, receiverId,
                                  message, replyTo, {}, None)
                               EXCEPT !.peerLive = PresenceUnsettled(receiverId),
                                      !.peerJoined = RoomSockets(receiverId) # {}])
  /\ UNCHANGED <<sockets, users, messages, chatRooms, inbox, now, calls>>

\* lines 76-96: the upsert completes, the message document is built
SendUpsertRoom(t) ==
  /\ t \in DOMAIN tasks.send
  /\ tasks.send[t].pc = "upsertRoom"
  /\ chatRooms' = UpsertRoom(chatRooms,
                             generateChatRoomId(tasks.send[t].userId, tasks.send[t].peer),
                             <<tasks.send[t].userId, tasks.send[t].peer>>, now)
  /\ tasks' = [tasks EXCEPT !.send[t].pc = "saveMessage",
                 !.send[t].doc =
                   NewMessage(generateChatRoomId(tasks.send[t].userId, tasks.send[t].peer),
                              tasks.send[t].userId, tasks.send[t].peer,
                              tasks.send[t].body, tasks.send[t].replyTo, now)]
  /\ UNCHANGED <<sockets, users, messages, inbox, now, calls>>

\* lines 98-108: the message is stored under its _id (the task's number)
SendSaveMessage(t) ==
  /\ t \in DOMAIN tasks.send
  /\ tasks.send[t].pc = "saveMessage"
  /\ ValidMessage(tasks.send[t].doc)
  /\ messages' = messages @@ (t :> tasks.send[t].doc)
  /\ tasks' = SetPc("send", t, IF tasks.send[t].doc.replyTo # NoId THEN "populateReply"
                       ELSE "updateRoom")
  /\ UNCHANGED <<sockets, users, chatRooms, inbox, now, calls>>

\* lines 104-108: Message.findById(savedMessage.replyTo)
SendPopulateReply(t) ==
  /\ t \in DOMAIN tasks.send
  /\ tasks.send[t].pc = "populateReply"
  /\ tasks' = SetPc("send", t, "updateRoom")
  /\ UNCHANGED <<sockets, users, messages, chatRooms, inbox, now, calls>>

\* an emission to the receiver's room whoever the sender is
ReceiveTargetsAlways(senderId, receiverId) == RoomSockets(receiverId)

\* line 134 and 147: receive-message to the receiver's room unless sender = receiver
ReceiveTargets(senderId, receiverId) ==
  IF receiverId # senderId THEN RoomSockets(receiverId) ELSE {}

\* lines 133-159: the three emissions of a send, in the order of the code
SendEmissions(inb, c, id, senderId, receiverId, status) ==
  EmitTo(EmitTo(EmitTo(inb, ReceiveTargets(senderId, receiverId),
                       Event("receive-message", {id}, NoUser, status)),
                SelfSocket(c), Event("message-sent", {id}, NoUser, status)),
         RoomSockets(senderId), Event("message-sent", {id}, NoUser, status))

\* lines 110-159: last message recorded, payload emitted
SendUpdateRoom(t) ==
  /\ t \in DOMAIN tasks.send
  /\ tasks.send[t].pc = "updateRoom"
  /\ chatRooms' = SetLastMessage(chatRooms, tasks.send[t].doc.chatRoomId, t,
                                 tasks.send[t].doc.timestamp)
  /\ inbox' = SendEmissions(inbox, tasks.send[t].conn, t, tasks.send[t].userId, tasks.send[t].peer,
                            tasks.send[t].doc.status)
  /\ tasks' = SetPc("send", t, "findReceiver")
  /\ UNCHANGED <<sockets, users, messages, now, calls>>

\* line 163: receiver && receiver.isOnline
ReceiverOnline(receiverId) ==
  receiverId \in DOMAIN users /\ users[receiverId].isOnline

\* lines 162-163
SendFindReceiver(t) ==
  /\ t \in DOMAIN tasks.send
  /\ tasks.send[t].pc = "findReceiver"
  /\ tasks' = IF ReceiverOnline(tasks.send[t].peer)
              THEN SetPc("send", t, "markDelivered")
              ELSE Finish("send", t)
  /\ UNCHANGED <<sockets, users, messages, chatRooms, inbox, now, calls>>

\* Message.findByIdAndUpdate(id, {status})
SetStatus(msgs, id, status) ==
  IF id \in DOMAIN msgs THEN [msgs EXCEPT ![id].status = status] ELSE msgs

\* lines 165-173
SendMarkDelivered(t) ==
  /\ t \in DOMAIN tasks.send
  /\ tasks.send[t].pc = "markDelivered"
  /\ messages' = SetStatus(messages, t, DELIVERED)
  /\ inbox' = EmitTo(inbox, RoomSockets(tasks.send[t].userId),
                     Event("message-status-update", {t}, NoUser, DELIVERED))
  /\ tasks' = Finish("send", t)
  /\ UNCHANGED <<sockets, users, chatRooms, now, calls>>

SendAwaits == {"upsertRoom", "saveMessage", "populateReply", "updateRoom",
               "findReceiver", "markDelivered"}

\* lines 175-178: an awaited store operation (or the validation of save) throws
SendFail(t) ==
  /\ t \in DOMAIN tasks.send
  /\ tasks.send[t].pc \in SendAwaits
  /\ inbox' = EmitTo(inbox, SelfSocket(tasks.send[t].conn),
                     Event("error", {}, NoUser, "Failed to send message"))
  /\ tasks' = [tasks EXCEPT !.send[t].pc = "failed", !.send[t].doc = NoDoc]
  /\ UNCHANGED <<sockets, users, messages, chatRooms, now, calls>>

(***************************************************************************)
(* socket.on('message-seen')                                               *)
(***************************************************************************)
\* Message.updateMany({_id: {$in: ids}, receiverId: userId}, {status: SEEN})
MarkSeen(msgs, ids, userId) ==
  [id \in DOMAIN msgs |->
     IF id \in ids /\ msgs[id].receiverId = userId
     THEN [msgs[id] EXCEPT !.status = SEEN]
     ELSE msgs[id]]

\* lines 193-194: the distinct senders of Message.find({_id: {$in: ids}})
SeenSenderIds(msgs, ids, userId) ==
  {msgs[id].senderId : id \in ids \cap DOMAIN msgs}

\* lines 197-202: one emission per sender id, each to that sender's room
RECURSIVE EmitToRooms(_, _, _)
EmitToRooms(inb, rooms, e) ==
  IF rooms = {} THEN inb
  ELSE LET room == CHOOSE x \in rooms : TRUE
       IN EmitToRooms(EmitTo(inb, RoomSockets(room), e), rooms \ {room}, e)

SeenStart(c, ids, userId) ==
  /\ Arrives(c)
  /\ NumTasks("seen") < MaxSeens
  /\ tasks' = Start("seen", Task("seen", c, "updateMany", userId, NoUser, None, NoId,
                                 ids, None))
  /\ UNCHANGED <<sockets, users, messages, chatRooms, inbox, now, calls>>

SeenUpdateMany(t) ==
  /\ t \in DOMAIN tasks.seen
  /\ tasks.seen[t].pc = "updateMany"
  /\ messages' = MarkSeen(messages, tasks.seen[t].ids, tasks.seen[t].userId)
  /\ tasks' = SetPc("seen", t, "find")
  /\ UNCHANGED <<sockets, users, chatRooms, inbox, now, calls>>

SeenFind(t) ==
  /\ t \in DOMAIN tasks.seen
  /\ tasks.seen[t].pc = "find"
  /\ inbox' = EmitToRooms(inbox, SeenSenderIds(messages, tasks.seen[t].ids, tasks.seen[t].userId),
                          Event("messages-seen", tasks.seen[t].ids, tasks.seen[t].userId, ""))
  /\ tasks' = Finish("seen", t)
  /\ UNCHANGED <<sockets, users, messages, chatRooms, now, calls>>

\* lines 203-205: a store operation of message-seen throws; the catch block logs
SeenFail(t) ==
  /\ t \in DOMAIN tasks.seen
  /\ tasks.seen[t].pc \in {"updateMany", "find"}
  /\ tasks' = [tasks EXCEPT !.seen[t].pc = "failed"]
  /\ UNCHANGED <<sockets, users, messages, chatRooms, inbox, now, calls>>

(***************************************************************************)
(* socket.on('edit-message')                                               *)
(***************************************************************************)
\* Message.findById: the document, or null (NoDoc, told apart by Found)
Found(msgs, id) == id \in DOMAIN msgs

FindById(msgs, id) == IF Found(msgs, id) THEN msgs[id] ELSE NoDoc

MessageId(kind, t) == CHOOSE id \in tasks[kind][t].ids : TRUE

EditStart(c, messageId, newMessage, userId) ==
  /\ Arrives(c)
  /\ NumTasks("edit") < MaxEdits
  /\ tasks' = Start("edit", Task("edit", c, "findMessage", userId, NoUser, newMessage,
                                 NoId, {messageId}, None))
  /\ UNCHANGED <<sockets, users, messages, chatRooms, inbox, now, calls>>

\* a check that looks only for the message
EditAllowedAny(found, message, userId) == found

\* line 227
EditAllowed(found, message, userId) == found /\ message.senderId = userId

\* lines 226-230
EditFindMessage(t) ==
  /\ t \in DOMAIN tasks.edit
  /\ tasks.edit[t].pc = "findMessage"
  /\ IF EditAllowed(Found(messages, MessageId("edit", t)), FindById(messages, MessageId("edit", t)),
                    tasks.edit[t].userId)
     THEN /\ tasks' = [tasks EXCEPT !.edit[t].pc = "update",
                         !.edit[t].doc = FindById(messages, MessageId("edit", t))]
          /\ UNCHANGED inbox
     ELSE /\ inbox' = EmitTo(inbox, SelfSocket(tasks.edit[t].conn),
                             Event("error", {}, NoUser, "Unauthorized"))
          /\ tasks' = [tasks EXCEPT !.edit[t].pc = "rejected"]
  /\ UNCHANGED <<sockets, users, messages, chatRooms, now, calls>>

\* lines 232-250
EditUpdate(t) ==
  /\ t \in DOMAIN tasks.edit
  /\ tasks.edit[t].pc = "update"
  /\ messages' = IF MessageId("edit", t) \in DOMAIN messages
                 THEN [messages EXCEPT ![MessageId("edit", t)].message = tasks.edit[t].body,
                                       ![MessageId("edit", t)].isEdited = TRUE]
                 ELSE messages
  /\ inbox' = EmitTo(EmitTo(inbox, RoomSockets(tasks.edit[t].doc.receiverId),
                            Event("message-edited", tasks.edit[t].ids, NoUser, tasks.edit[t].body)),
                     SelfSocket(tasks.edit[t].conn),
                     Event("message-edited", tasks.edit[t].ids, NoUser, tasks.edit[t].body))
  /\ tasks' = Finish("edit", t)
  /\ UNCHANGED <<sockets, users, chatRooms, now, calls>>

\* lines 251-254
EditFail(t) ==
  /\ t \in DOMAIN tasks.edit
  /\ tasks.edit[t].pc \in {"findMessage", "update"}
  /\ inbox' = EmitTo(inbox, SelfSocket(tasks.edit[t].conn),
                     Event("error", {}, NoUser, "Failed to edit message"))
  /\ tasks' = [tasks EXCEPT !.edit[t].pc = "failed", !.edit[t].doc = NoDoc]
  /\ UNCHANGED <<sockets, users, messages, chatRooms, now, calls>>

(***************************************************************************)
(* socket.on('delete-message')                                             *)
(***************************************************************************)
Includes(seq, x) == \E i \in 1..Len(seq) : seq[i] = x

DeleteStart(c, messageId, userId, deleteFor) ==
  /\ Arrives(c)
  /\ NumTasks("delete") < MaxDeletes
  /\ tasks' = Start("delete", Task("delete", c, "findMessage", userId, NoUser, None,
                                 NoId, {messageId}, deleteFor))
  /\ UNCHANGED <<sockets, users, messages, chatRooms, inbox, now, calls>>

\* line 274: the 'me' branch saves only when the user is not yet in deletedFor
DeleteMeSaves(message, userId) == ~Includes(message.deletedFor, userId)

\* lines 291-294
DeleteNotifySender(inb, t) ==
  EmitTo(inb, SelfSocket(tasks.delete[t].conn),
         Event("message-deleted", tasks.delete[t].ids, NoUser, ""))

\* lines 266-283, up to the await of save(): the loaded document is changed locally
DeleteFindMessage(t) ==
  /\ t \in DOMAIN tasks.delete
  /\ tasks.delete[t].pc = "findMessage"
  /\ LET message == FindById(messages, MessageId("delete", t))
     IN IF ~Found(messages, MessageId("delete", t))
        THEN /\ inbox' = EmitTo(inbox, SelfSocket(tasks.delete[t].conn),
                                Event("error", {}, NoUser, "Message not found"))
             /\ tasks' = [tasks EXCEPT !.delete[t].pc = "rejected"]
        ELSE IF tasks.delete[t].scope = "me"
        THEN IF DeleteMeSaves(message, tasks.delete[t].userId)
             THEN /\ tasks' = [tasks EXCEPT !.delete[t].pc = "saveMe", !.delete[t].doc = message]
                  /\ UNCHANGED inbox
             ELSE /\ inbox' = DeleteNotifySender(inbox, t)
                  /\ tasks' = Finish("delete", t)
        ELSE /\ tasks' = [tasks EXCEPT !.delete[t].pc = "saveBoth", !.delete[t].doc = message]
             /\ UNCHANGED inbox
  /\ UNCHANGED <<sockets, users, messages, chatRooms, now, calls>>

\* save() after deletedFor.push(userId): sent as $push, plus $set of deleteType when
\* the assignment of line 276 changed the loaded document; the version key is
\* incremented and not compared
SaveMe(msgs, id, userId, doc) ==
  [msgs EXCEPT ![id].deletedFor = Append(@, userId),
               ![id].deleteType = IF doc.deleteType # FOR_ME THEN FOR_ME ELSE @,
               ![id].v = @ + 1]

\* lines 274-278 and 291-294
DeleteSaveMe(t) ==
  /\ t \in DOMAIN tasks.delete
  /\ tasks.delete[t].pc = "saveMe"
  /\ messages' = SaveMe(messages, MessageId("delete", t), tasks.delete[t].userId,
                        tasks.delete[t].doc)
  /\ inbox' = DeleteNotifySender(inbox, t)
  /\ tasks' = Finish("delete", t)
  /\ UNCHANGED <<sockets, users, chatRooms, now, calls>>

\* line 282 modifies the loaded document when the array assigned differs from it
ArrayModified(doc) == doc.deletedFor # <<doc.senderId, doc.receiverId>>

\* line 281 modifies the loaded document when it was not yet for_both
TypeModified(doc) == doc.deleteType # FOR_BOTH

\* the assignments of lines 281-282 leave the loaded document as it was
BothUnmodified(doc) == ~TypeModified(doc) /\ ~ArrayModified(doc)

\* save() after assigning the whole deletedFor array: the array is sent as $set, and
\* mongoose then matches the version key the document was loaded with
\* (VersionError otherwise); without a change of the array no version is compared
SaveBothAccepted(msgs, id, doc) == ~ArrayModified(doc) \/ msgs[id].v = doc.v

\* a save that sends the delete type and never the array
SaveBothTypeOnly(msgs, id, doc) ==
  [msgs EXCEPT ![id].deleteType = FOR_BOTH]

\* only the modified paths are sent; the version key is incremented with the array
SaveBoth(msgs, id, doc) ==
  [msgs EXCEPT ![id].deletedFor = IF ArrayModified(doc)
                                  THEN <<doc.senderId, doc.receiverId>> ELSE @,
               ![id].deleteType = IF TypeModified(doc) THEN FOR_BOTH ELSE @,
               ![id].v = IF ArrayModified(doc) THEN @ + 1 ELSE @]

\* lines 279-294
DeleteSaveBoth(t) ==
  /\ t \in DOMAIN tasks.delete
  /\ tasks.delete[t].pc = "saveBoth"
  /\ SaveBothAccepted(messages, MessageId("delete", t), tasks.delete[t].doc)
  /\ messages' = SaveBoth(messages, MessageId("delete", t), tasks.delete[t].doc)
  /\ inbox' = DeleteNotifySender(
                 EmitTo(inbox, RoomSockets(tasks.delete[t].doc.receiverId),
                        Event("message-deleted", tasks.delete[t].ids, NoUser, "")), t)
  /\ tasks' = Finish("delete", t)
  /\ UNCHANGED <<sockets, users, chatRooms, now, calls>>

\* lines 295-298: a store operation throws (for saveBoth also the VersionError)
DeleteFail(t) ==
  /\ t \in DOMAIN tasks.delete
  /\ tasks.delete[t].pc \in {"findMessage", "saveMe", "saveBoth"}
  /\ inbox' = EmitTo(inbox, SelfSocket(tasks.delete[t].conn),
                     Event("error", {}, NoUser, "Failed to delete message"))
  /\ tasks' = [tasks EXCEPT !.delete[t].pc = "failed", !.delete[t].doc = NoDoc]
  /\ UNCHANGED <<sockets, users, messages, chatRooms, now, calls>>

(***************************************************************************)
(* Chat history: socket.on('load-chat-history') and GET /history           *)
(***************************************************************************)
HistoryLimit == 100

\* a filter that looks at deleteType alone
VisibleByTypeOnly(m, userId1) == m.deleteType # FOR_BOTH

\* the filter of Message.find: deleteType $ne 'for_both', and deletedFor does not
\* contain userId1 or is empty
Visible(m, userId1) ==
  /\ m.deleteType # FOR_BOTH
  /\ (~Includes(m.deletedFor, userId1) \/ Len(m.deletedFor) = 0)

HistoryIds(userId1, userId2) ==
  {id \in DOMAIN messages :
     /\ messages[id].chatRoomId = generateChatRoomId(userId1, userId2)
     /\ Visible(messages[id], userId1)}

\* every order of a set of documents
RECURSIVE Orders(_)
Orders(ids) ==
  IF ids = {} THEN {<<>>}
  ELSE UNION {{<<m>> \o s : s \in Orders(ids \ {m})} : m \in ids}

Timestamps(ids) == {messages[id].timestamp : id \in ids}

Least(ts) == CHOOSE x \in ts : \A y \in ts : x <= y

Greatest(ts) == CHOOSE x \in ts : \A y \in ts : y <= x

\* .sort({timestamp: 1}): every order of the matching documents that ascends in
\* timestamp (the store leaves the order of equal timestamps open): the older
\* half in order, then the newer half in order
RECURSIVE SortedByTimestamp(_)
SortedByTimestamp(ids) ==
  IF Cardinality(Timestamps(ids)) <= 1 THEN Orders(ids)
  ELSE LET mid == (Least(Timestamps(ids)) + Greatest(Timestamps(ids))) \div 2
           older == {id \in ids : messages[id].timestamp <= mid}
       IN {s \o t : s \in SortedByTimestamp(older),
                    t \in SortedByTimestamp(ids \ older)}

\* .limit(n): the first n documents of the sorted result
Limit(s, n) == IF Len(s) <= n THEN s ELSE SubSeq(s, 1, n)

\* the socket handler's result (lines 325-335)
loadHistory(userId1, userId2) ==
  {Limit(s, HistoryLimit) : s \in SortedByTimestamp(HistoryIds(userId1, userId2))}

\* the route's result (messageRoutes.ts lines 15-24): no limit
getHistory(userId1, userId2) == SortedByTimestamp(HistoryIds(userId1, userId2))

HistoryStart(c, userId1, userId2) ==
  /\ Arrives(c)
  /\ NumTasks("history") < MaxHistories
  /\ tasks' = Start("history", Task("history", c, "find", userId1, userId2, None, NoId,
                                 {}, None))
  /\ UNCHANGED <<sockets, users, messages, chatRooms, inbox, now, calls>>

\* lines 325-356
HistoryFind(t) ==
  /\ t \in DOMAIN tasks.history
  /\ tasks.history[t].pc = "find"
  /\ \E s \in loadHistory(tasks.history[t].userId, tasks.history[t].peer) :
       inbox' = EmitTo(inbox, SelfSocket(tasks.history[t].conn),
                       [Event("chat-history-loaded", {}, NoUser, "")
                          EXCEPT !.list = s])
  /\ tasks' = Finish("history", t)
  /\ UNCHANGED <<sockets, users, messages, chatRooms, now, calls>>

(***************************************************************************)
(* The clock                                                               *)
(***************************************************************************)
Tick ==
  /\ now < MaxTime
  /\ now' = now + 1
  /\ UNCHANGED <<sockets, users, messages, chatRooms, tasks, inbox, calls>>

(***************************************************************************)
(* Applications of generateChatRoomId on arbitrary identifier strings      *)
(***************************************************************************)
\* two applications are recorded: the relations on the key compare a pair of them
CallGenerateChatRoomId(userId1, userId2) ==
  /\ Len(calls) < 2
  /\ calls' = Append(calls, [userId1 |-> userId1, userId2 |-> userId2,
                             result |-> generateChatRoomId(userId1, userId2)])
  /\ UNCHANGED <<sockets, users, messages, chatRooms, tasks, inbox, now>>

(***************************************************************************)
(* Specifications                                                          *)
(***************************************************************************)
Bodies == {"hi"}

JoinSteps(t) == JoinFindUser(t) \/ JoinUpdateUser(t)

SendSteps(t) ==
  \/ SendUpsertRoom(t)
  \/ SendSaveMessage(t)
  \/ SendUpdateRoom(t)
  \/ SendFindReceiver(t)
  \/ SendMarkDelivered(t)

SeenSteps(t) == SeenUpdateMany(t) \/ SeenFind(t)

\* ids a client can name: those of stored messages
KnownIds == DOMAIN messages

NoSendInFlight == \A t \in DOMAIN tasks.send : ~InFlight(tasks.send[t])

\* presence: connections joining and leaving
NextPresence ==
  \/ \E c \in Conns : Connect(c)
  \/ \E c \in Conns, u \in {A, B} : JoinStart(c, u)
  \/ \E t \in DOMAIN tasks.join : JoinSteps(t)
  \/ \E c \in Conns : Disconnect(c)
  \/ \E t \in DOMAIN tasks.disconnect : DisconnectUpdateUser(t)

SpecPresence == Init /\ [][NextPresence]_vars

\* presence of the receiver B, and A sending to B, one message at a time
NextOffline ==
  \/ \E c \in Conns : Connect(c)
  \/ \E c \in Conns : JoinStart(c, B)
  \/ \E t \in DOMAIN tasks.join : JoinSteps(t)
  \/ \E c \in Conns : Disconnect(c)
  \/ \E t \in DOMAIN tasks.disconnect : DisconnectUpdateUser(t)
  \/ \E c \in Conns, b \in Bodies : NoSendInFlight /\ SendStart(c, A, B, b, NoId)
  \/ \E t \in DOMAIN tasks.send : SendSteps(t)

SpecOffline == Init /\ [][NextOffline]_vars

\* connection 1 is a device of A, connection 2 a device of B; A sends to B or to
\* itself, one message at a time, and B reports what it has seen
NextSend ==
  \/ \E c \in Conns : Connect(c)
  \/ JoinStart(1, A)
  \/ JoinStart(2, B)
  \/ \E t \in DOMAIN tasks.join : JoinSteps(t)
  \/ \E r \in {A, B}, b \in Bodies : NoSendInFlight /\ SendStart(1, A, r, b, NoId)
  \/ \E t \in DOMAIN tasks.send : SendSteps(t)
  \/ \E ids \in SUBSET KnownIds : ids # {} /\ SeenStart(2, ids, B)
  \/ \E t \in DOMAIN tasks.seen : SeenSteps(t)

Spec == Init /\ [][NextSend]_vars

\* concurrent sends in both directions between A and B, B listening on connection 2
NextOrder ==
  \/ \E c \in Conns : Connect(c)
  \/ JoinStart(2, B)
  \/ \E t \in DOMAIN tasks.join : JoinSteps(t)
  \/ \E c \in Conns, s \in {A, B}, r \in {A, B}, b \in Bodies :
       SendStart(c, s, r, b, NoId)
  \/ \E t \in DOMAIN tasks.send : SendSteps(t)
  \/ \E t \in DOMAIN tasks.send : SendFail(t)

SpecOrder == Init /\ [][NextOrder]_vars

\* the conversation index: sends between A and B in both directions, issued over
\* connection 1 and running concurrently, with store failures
NextRooms ==
  \/ \E c \in Conns : Connect(c)
  \/ \E s \in {A, B}, r \in {A, B}, b \in Bodies : SendStart(1, s, r, b, NoId)
  \/ \E t \in DOMAIN tasks.send : SendSteps(t)
  \/ \E t \in DOMAIN tasks.send : SendFail(t)

SpecRooms == Init /\ [][NextRooms]_vars

EditSteps(t) == EditFindMessage(t) \/ EditUpdate(t)

DeleteSteps(t) == DeleteFindMessage(t) \/ DeleteSaveMe(t) \/ DeleteSaveBoth(t)

NoMessageYet == DOMAIN messages = {} /\ NoSendInFlight

\* ids a client of the conversation has been told: those of a message-sent or
\* receive-message event some connection has received
AnnouncedIds ==
  {id \in DOMAIN messages :
     \E c \in Conns : \E i \in 1..Len(inbox[c]) :
       inbox[c][i].ev \in {"message-sent", "receive-message"} /\ inbox[c][i].ids = {id}}

\* requests about stored messages that have arrived so far
NumRequests == NumTasks("edit") + NumTasks("seen") + NumTasks("delete")

\* the life of a message A sends to B over connection 1: edited by A, seen by B,
\* deleted for themselves or for both by requests naming any user, the requests
\* running concurrently
NextDelete ==
  \/ Connect(1)
  \/ \E b \in Bodies : NoMessageYet /\ SendStart(1, A, B, b, NoId)
  \/ \E t \in DOMAIN tasks.send : SendSteps(t)
  \/ \E id \in AnnouncedIds : NumRequests < MaxRequests /\ EditStart(1, id, "edited", A)
  \/ \E t \in DOMAIN tasks.edit : EditSteps(t)
  \/ \E id \in AnnouncedIds : NumRequests < MaxRequests /\ SeenStart(1, {id}, B)
  \/ \E t \in DOMAIN tasks.seen : SeenSteps(t)
  \/ \E id \in AnnouncedIds, u \in UserIds, scope \in {"me", "both"} :
       NumRequests < MaxRequests /\ DeleteStart(1, id, u, scope)
  \/ \E t \in DOMAIN tasks.delete : DeleteSteps(t)
  \/ \E t \in DOMAIN tasks.delete : DeleteFail(t)

SpecDelete == Init /\ [][NextDelete]_vars

NoJoinInFlight == \A t \in DOMAIN tasks.join : ~InFlight(tasks.join[t])

\* connection 1 is a device of A, connection 2 a second device of A or a device
\* of B, joining before the conversation starts; A sends one message to B, and
\* edit requests naming A or B arrive on either connection, with store failures
NextEdit ==
  \/ \E c \in {1, 2} : Connect(c)
  \/ NoMessageYet /\ JoinStart(1, A)
  \/ \E u \in {A, B} : NoMessageYet /\ JoinStart(2, u)
  \/ \E t \in DOMAIN tasks.join : JoinSteps(t)
  \/ \E b \in Bodies : NoMessageYet /\ NoJoinInFlight /\ SendStart(1, A, B, b, NoId)
  \/ \E t \in DOMAIN tasks.send : SendSteps(t)
  \/ \E id \in AnnouncedIds, c \in {1, 2}, u \in {A, B} :
       NumRequests < MaxRequests /\ EditStart(c, id, "edited", u)
  \/ \E t \in DOMAIN tasks.edit : EditSteps(t)
  \/ \E t \in DOMAIN tasks.edit : EditFail(t)

SpecEdit == Init /\ [][NextEdit]_vars

\* devices of A and B join before the conversation starts; A sends one message
\* to B, and delete requests naming A or B arrive on any connection, with store
\* failures
NextNotify ==
  \/ \E c \in Conns : Connect(c)
  \/ \E c \in Conns, u \in {A, B} : NoMessageYet /\ JoinStart(c, u)
  \/ \E t \in DOMAIN tasks.join : JoinSteps(t)
  \/ \E b \in Bodies : NoMessageYet /\ NoJoinInFlight /\ SendStart(1, A, B, b, NoId)
  \/ \E t \in DOMAIN tasks.send : SendSteps(t)
  \/ \E id \in AnnouncedIds, c \in Conns, u \in {A, B}, scope \in {"me", "both"} :
       DeleteStart(c, id, u, scope)
  \/ \E t \in DOMAIN tasks.delete : DeleteSteps(t)
  \/ \E t \in DOMAIN tasks.delete : DeleteFail(t)

SpecNotify == Init /\ [][NextNotify]_vars

\* a well-formed message id that no stored message has
UnknownId == MaxSends + 1

\* A sends messages to B over connection 1, plain or in reply to a stored message
\* or to an id that resolves to nothing, with store failures
NextReply ==
  \/ \E c \in Conns : Connect(c)
  \/ \E b \in Bodies, r \in {NoId, UnknownId} \cup KnownIds :
       NoSendInFlight /\ SendStart(1, A, B, b, r)
  \/ \E t \in DOMAIN tasks.send : SendSteps(t)
  \/ \E t \in DOMAIN tasks.send : SendPopulateReply(t)
  \/ \E t \in DOMAIN tasks.send : SendFail(t)

SpecReply == Init /\ [][NextReply]_vars

\* connection 1 is a device of A, joining before the conversation starts; A sends
\* to itself or to B, one message at a time, with store failures
NextSelf ==
  \/ \E c \in {1, 2} : Connect(c)
  \/ NoMessageYet /\ JoinStart(1, A)
  \/ \E t \in DOMAIN tasks.join : JoinSteps(t)
  \/ \E r \in {A, B}, b \in Bodies :
       NoSendInFlight /\ NoJoinInFlight /\ SendStart(1, A, r, b, NoId)
  \/ \E t \in DOMAIN tasks.send : SendSteps(t)
  \/ \E t \in DOMAIN tasks.send : SendFail(t)

SpecSelf == Init /\ [][NextSelf]_vars

\* the Message collection the server finds in the database when it starts: n
\* messages from A to B with timestamps 1..n, the first of which A may have
\* deleted for themselves
Backlog(n, hidden) ==
  [i \in 1..n |->
     IF i = 1 /\ hidden
     THEN [NewMessage(generateChatRoomId(A, B), A, B, "hi", NoId, i)
             EXCEPT !.deletedFor = <<A>>, !.deleteType = FOR_ME, !.v = 1]
     ELSE NewMessage(generateChatRoomId(A, B), A, B, "hi", NoId, i)]

\* sizes of the stored conversation: small ones and those around the cap
BacklogSizes == 0..2 \cup (HistoryLimit - 1)..(HistoryLimit + 1)

\* the server starts over a database that already holds a conversation
InitHistory ==
  /\ sockets = [c \in Conns |-> [state |-> "none", userId |-> NoUser, rooms |-> {}]]
  /\ users = [u \in Registered |-> [isOnline |-> FALSE, socketId |-> NoSocket, lastSeen |-> 0]]
  /\ \E n \in BacklogSizes, hidden \in BOOLEAN :
       /\ messages = Backlog(n, hidden)
       /\ chatRooms = IF n = 0 THEN <<>>
                      ELSE <<[chatRoomId |-> generateChatRoomId(A, B),
                              participants |-> <<A, B>>,
                              lastMessage |-> n, lastMessageTime |-> n]>>
       /\ now = n
  /\ tasks = [k \in Kinds |-> <<>>]
  /\ inbox = [c \in Conns |-> <<>>]
  /\ calls = <<>>

\* clients load the history of the stored conversation as either participant
NextHistory ==
  \/ \E c \in Conns : Connect(c)
  \/ \E c \in Conns, userId1 \in {A, B}, userId2 \in {A, B} :
       HistoryStart(c, userId1, userId2)
  \/ \E t \in DOMAIN tasks.history : HistoryFind(t)

SpecHistory == InitHistory /\ [][NextHistory]_vars

\* identifier strings fed to the room key derivation
\* connection 1 is a device of A, connection 2 a device of B; A joins and sends to
\* B, B reports what it has seen, and any store operation may fail
NextFailure ==
  \/ \E c \in {1, 2} : Connect(c)
  \/ NoMessageYet /\ JoinStart(1, A)
  \/ \E t \in DOMAIN tasks.join : JoinSteps(t)
  \/ \E t \in DOMAIN tasks.join : JoinFail(t)
  \/ \E b \in Bodies : NoSendInFlight /\ NoJoinInFlight /\ SendStart(1, A, B, b, NoId)
  \/ \E t \in DOMAIN tasks.send : SendSteps(t)
  \/ \E t \in DOMAIN tasks.send : SendFail(t)
  \/ \E ids \in SUBSET KnownIds : ids # {} /\ NoSendInFlight /\ SeenStart(2, ids, B)
  \/ \E t \in DOMAIN tasks.seen : SeenSteps(t)
  \/ \E t \in DOMAIN tasks.seen : SeenFail(t)

SpecFailure == Init /\ [][NextFailure]_vars

\* A sends to B over connection 1, the sends overlapping, while time passes; B may
\* have joined on connection 2 before the conversation starts
NextLast ==
  \/ \E c \in {1, 2} : Connect(c)
  \/ NoMessageYet /\ JoinStart(2, B)
  \/ \E t \in DOMAIN tasks.join : JoinSteps(t)
  \/ \E b \in Bodies : SendStart(1, A, B, b, NoId)
  \/ \E t \in DOMAIN tasks.send : SendSteps(t)
  \/ Tick

SpecLast == Init /\ [][NextLast]_vars

\* connection 1 is a device of A, connection 2 a device of B that joins and
\* leaves; A sends to B, one message at a time, and B reports what it has seen
\* when no send or join is under way
NextFrame ==
  \/ \E c \in {1, 2} : Connect(c)
  \/ JoinStart(2, B)
  \/ \E t \in DOMAIN tasks.join : JoinSteps(t)
  \/ Disconnect(2)
  \/ \E t \in DOMAIN tasks.disconnect : DisconnectUpdateUser(t)
  \/ \E b \in Bodies : NoSendInFlight /\ SendStart(1, A, B, b, NoId)
  \/ \E t \in DOMAIN tasks.send : SendSteps(t)
  \/ \E id \in KnownIds : NoSendInFlight /\ NoJoinInFlight /\ SeenStart(2, {id}, B)
  \/ \E t \in DOMAIN tasks.seen : SeenSteps(t)

SpecFrame == Init /\ [][NextFrame]_vars

NextKey == \E a \in IdStrings, b \in IdStrings : CallGenerateChatRoomId(a, b)

SpecKey == Init /\ [][NextKey]_vars

(***************************************************************************)
(* Properties                                                              *)
(***************************************************************************)
Rank(status) == IF status = SENT THEN 0 ELSE IF status = DELIVERED THEN 1 ELSE 2

SendTasks == DOMAIN tasks.send

\* the events of one kind about message id that connection c has received
Received(c, ev, id) == {i \in 1..Len(inbox[c]) : inbox[c][i].ev = ev /\ inbox[c][i].ids = {id}}

\* C1: the persisted status of a message only moves forward, sent < delivered <
\* seen: no step of any handler lowers the status of a stored message.
C1_StatusNeverRegresses ==
  [][\A id \in DOMAIN messages :
       Rank(messages'[id].status) >= Rank(messages[id].status)]_vars

\* C2: when a send with sender # receiver emits its events, every live connection
\* of the receiver holds receive-message for it exactly once, and every live
\* connection of the sender, the issuing connection included, holds the
\* message-sent confirmation exactly once.
C2_FanoutExactlyOnce ==
  [][\A t \in SendTasks :
       (tasks.send[t].pc = "updateRoom" /\ tasks'.send[t].pc = "findReceiver"
          /\ tasks.send[t].userId # tasks.send[t].peer)
       => /\ \A c \in RoomSockets(tasks.send[t].peer) :
               Cardinality({i \in 1..Len(inbox'[c]) :
                              inbox'[c][i] = Event("receive-message", {t}, NoUser, SENT)}) = 1
          /\ \A c \in RoomSockets(tasks.send[t].userId) \cup SelfSocket(tasks.send[t].conn) :
               Cardinality({i \in 1..Len(inbox'[c]) :
                              inbox'[c][i] = Event("message-sent", {t}, NoUser, SENT)}) = 1]_vars

\* C8: message-seen(ids, viewer) changes to seen exactly the listed messages
\* addressed to viewer and leaves all others unchanged, and its messages-seen
\* notification reaches exactly the connections of the senders of those messages.
C8_SeenNotifiesOnlyAffectedSenders ==
  [][\A t \in DOMAIN tasks.seen :
         /\ (tasks.seen[t].pc = "updateMany" /\ tasks'.seen[t].pc = "find")
            => \A id \in DOMAIN messages :
                 messages'[id] =
                   IF id \in tasks.seen[t].ids /\ messages[id].receiverId = tasks.seen[t].userId
                   THEN [messages[id] EXCEPT !.status = SEEN]
                   ELSE messages[id]
         /\ (tasks.seen[t].pc = "find" /\ tasks'.seen[t].pc = "done")
            => \A c \in Conns :
                 (inbox'[c] # inbox[c]) <=>
                   \E id \in tasks.seen[t].ids \cap DOMAIN messages :
                     /\ messages[id].receiverId = tasks.seen[t].userId
                     /\ c \in RoomSockets(messages[id].senderId)]_vars

MessageOf(e) == CHOOSE id \in e.ids : TRUE

\* C3: the receive-message events of two sends that one connection issued for the
\* same sender and receiver reach every connection of the receiver in the order in
\* which the sends were accepted.
C3_ReceiveOrderIsSendOrder ==
  \A c \in Conns : \A i, j \in 1..Len(inbox[c]) :
    (/\ i < j
     /\ inbox[c][i].ev = "receive-message"
     /\ inbox[c][j].ev = "receive-message"
     /\ tasks.send[MessageOf(inbox[c][i])].conn = tasks.send[MessageOf(inbox[c][j])].conn
     /\ tasks.send[MessageOf(inbox[c][i])].userId = tasks.send[MessageOf(inbox[c][j])].userId
     /\ tasks.send[MessageOf(inbox[c][i])].peer = tasks.send[MessageOf(inbox[c][j])].peer)
    => MessageOf(inbox[c][i]) < MessageOf(inbox[c][j])

Participants(room) == {room.participants[i] : i \in 1..Len(room.participants)}

\* C5: in every reachable state there is at most one ChatRoom record per unordered
\* pair of users, however many sends between them run, in either direction.
C5_OneRoomPerPair ==
  \A a \in UserIds, b \in UserIds :
    Cardinality({i \in 1..Len(chatRooms) : Participants(chatRooms[i]) = {a, b}}) <= 1

\* two sends in opposite directions between two users have both upserted the room
\* before either has stored its message
C5_Witness ==
  \E t1 \in SendTasks, t2 \in SendTasks :
    /\ tasks.send[t1].userId # tasks.send[t1].peer
    /\ tasks.send[t1].userId = tasks.send[t2].peer
    /\ tasks.send[t1].peer = tasks.send[t2].userId
    /\ tasks.send[t1].pc = "saveMessage"
    /\ tasks.send[t2].pc = "saveMessage"
    /\ Len(chatRooms) = 1

\* C6: generateChatRoomId(a, b) equals generateChatRoomId(b, a) for all identifier
\* pairs, and calls with the same arguments return the same key.
C6_RoomIdSymmetric ==
  \A i \in 1..Len(calls), j \in 1..Len(calls) :
    (\/ (calls[i].userId1 = calls[j].userId2 /\ calls[i].userId2 = calls[j].userId1)
     \/ (calls[i].userId1 = calls[j].userId1 /\ calls[i].userId2 = calls[j].userId2))
    => calls[i].result = calls[j].result

\* the key of ("a_", "a") and of ("a", "a_"), one identifier a prefix of the other
C6_Witness ==
  /\ Len(calls) = 2
  /\ calls[1].userId1 = <<97, 95>> /\ calls[1].userId2 = <<97>>
  /\ calls[2].userId1 = <<97>> /\ calls[2].userId2 = <<97, 95>>
  /\ calls[1].result = <<97, 95, 97, 95>>

\* C7: a send from A to B that arrives when B has no live connection and no join or
\* disconnect of B is in flight, and during which B gets no live connection, ends
\* with the message's status sent, the message-sent confirmation on A's connection and no
\* message-status-update for the message, whatever B's earlier joins and
\* disconnects.
C7_OfflineSendStaysSent ==
  \A t \in SendTasks :
    (/\ tasks.send[t].pc = "done" /\ ~tasks.send[t].peerLive
     /\ tasks.send[t].userId # tasks.send[t].peer)
    => /\ messages[t].status = SENT
       /\ IsOpen(tasks.send[t].conn) => Received(tasks.send[t].conn, "message-sent", t) # {}
       /\ \A c \in Conns : Received(c, "message-status-update", t) = {}

\* C9: while a user still has a joined live connection, the disconnect of another of
\* their connections neither sets isOnline to false nor emits user-offline.
C9_OfflineOnlyOnLastDisconnect ==
  [][\A t \in DOMAIN tasks.disconnect :
       (/\ tasks.disconnect[t].pc = "updateUser" /\ tasks'.disconnect[t].pc = "done"
        /\ RoomSockets(tasks.disconnect[t].userId) # {})
       => /\ tasks.disconnect[t].userId \in DOMAIN users
             => (users[tasks.disconnect[t].userId].isOnline
                   => users'[tasks.disconnect[t].userId].isOnline)
          /\ \A c \in Conns : inbox'[c] = inbox[c]]_vars

\* C10: a join emits user-online only when it is the user's first live connection: a
\* join of a user who already has a joined live connection (another one, or this
\* one joining again) emits nothing.
C10_OnlineOnlyOnFirstJoin ==
  [][\A t \in DOMAIN tasks.join :
       (/\ tasks.join[t].pc # "done" /\ tasks'.join[t].pc = "done"
        /\ RoomSockets(tasks.join[t].userId) # {})
       => \A c \in Conns : inbox'[c] = inbox[c]]_vars

DeleteTasks == DOMAIN tasks.delete

\* the completed delete requests of a scope for message id naming user u
DeletedBy(id, u, scope) ==
  {t \in DeleteTasks : /\ tasks.delete[t].pc = "done" /\ tasks.delete[t].ids = {id}
                       /\ tasks.delete[t].userId = u /\ tasks.delete[t].scope = scope}

DeletedForBoth(id) ==
  {t \in DeleteTasks : /\ tasks.delete[t].pc = "done" /\ tasks.delete[t].ids = {id}
                       /\ tasks.delete[t].scope = "both"}

IsParticipant(id, u) == u \in {messages[id].senderId, messages[id].receiverId}

OtherParticipant(id, u) ==
  IF messages[id].senderId = u THEN messages[id].receiverId ELSE messages[id].senderId

\* C4 as stated: once a participant A has deleted a message for themselves,
\* history for A excludes it and history for the other participant B includes it,
\* and once it is deleted for both, history for either excludes it, whatever edit,
\* seen and delete operations follow.
C4_DeleteVisibilityAsStated ==
  \A id \in DOMAIN messages :
    /\ \A u \in UserIds :
         (/\ IsParticipant(id, u) /\ OtherParticipant(id, u) # u
          /\ DeletedBy(id, u, "me") # {})
         => /\ id \notin HistoryIds(u, OtherParticipant(id, u))
            /\ id \in HistoryIds(OtherParticipant(id, u), u)
    /\ DeletedForBoth(id) # {}
         => /\ id \notin HistoryIds(messages[id].senderId, messages[id].receiverId)
            /\ id \notin HistoryIds(messages[id].receiverId, messages[id].senderId)

\* C4 (amended): once a participant A has deleted a message for themselves, history
\* for A excludes it whatever edit, seen and delete operations follow, and history
\* for the other participant B includes it as long as no delete for both and no
\* delete for B has completed; once it is deleted for both, history for either
\* participant excludes it whatever follows.
C4_DeleteVisibility ==
  \A id \in DOMAIN messages :
    /\ \A u \in UserIds :
         (/\ IsParticipant(id, u) /\ OtherParticipant(id, u) # u
          /\ DeletedBy(id, u, "me") # {})
         => /\ id \notin HistoryIds(u, OtherParticipant(id, u))
            /\ (/\ DeletedForBoth(id) = {}
                /\ DeletedBy(id, OtherParticipant(id, u), "me") = {})
               => id \in HistoryIds(OtherParticipant(id, u), u)
    /\ DeletedForBoth(id) # {}
         => /\ id \notin HistoryIds(messages[id].senderId, messages[id].receiverId)
            /\ id \notin HistoryIds(messages[id].receiverId, messages[id].senderId)

\* a message deleted by A for themselves, then edited and seen, still in B's
\* history and not in A's
C4_Witness ==
  \E id \in DOMAIN messages :
    /\ DeletedBy(id, A, "me") # {}
    /\ messages[id].isEdited /\ messages[id].status = SEEN
    /\ id \in HistoryIds(B, A) /\ id \notin HistoryIds(A, B)

\* C11: in every reachable state a message whose deleteType is for_both has both
\* its senderId and its receiverId in deletedFor, whatever delete requests with
\* scope 'me' and 'both' have run and however they interleaved.
C11_ForBothListsParticipants ==
  \A id \in DOMAIN messages :
    messages[id].deleteType = FOR_BOTH
    => /\ Includes(messages[id].deletedFor, messages[id].senderId)
       /\ Includes(messages[id].deletedFor, messages[id].receiverId)

\* a message deleted for both after its sender had deleted it for themselves
C11_Witness ==
  \E id \in DOMAIN messages :
    /\ messages[id].deleteType = FOR_BOTH
    /\ DeletedBy(id, messages[id].senderId, "me") # {}
    /\ DeletedForBoth(id) # {}

\* C12: once a message's deleteType is for_both it stays for_both: no step of a
\* later or concurrent delete request changes it.
C12_ForBothIsFinal ==
  [][\A id \in DOMAIN messages :
       messages[id].deleteType = FOR_BOTH => messages'[id].deleteType = FOR_BOTH]_vars

\* the inbox of connection c after one more event of kind ev, and nothing else
GotOne(c, ev) ==
  /\ Len(inbox'[c]) = Len(inbox[c]) + 1
  /\ SubSeq(inbox'[c], 1, Len(inbox[c])) = inbox[c]
  /\ inbox'[c][Len(inbox'[c])].ev = ev

\* C13: an edit-message request whose userId differs from the message's senderId
\* fails: its only step leaves every stored message unchanged, ends the request
\* as rejected (or failed by the store), emits an error event to the originating
\* connection and emits nothing to any other connection.
C13_EditByOtherRejected ==
  [][\A t \in DOMAIN tasks.edit :
       (/\ Found(messages, MessageId("edit", t))
        /\ messages[MessageId("edit", t)].senderId # tasks.edit[t].userId
        /\ tasks'.edit[t].pc # tasks.edit[t].pc)
       => /\ tasks.edit[t].pc = "findMessage"
          /\ tasks'.edit[t].pc \in {"rejected", "failed"}
          /\ messages' = messages
          /\ GotOne(tasks.edit[t].conn, "error")
          /\ \A c \in Conns \ {tasks.edit[t].conn} : inbox'[c] = inbox[c]]_vars

\* an edit naming B of A's message was rejected as Unauthorized while a
\* connection of A was in A's room
C13_Witness ==
  \E t \in DOMAIN tasks.edit :
    /\ tasks.edit[t].pc = "rejected"
    /\ Found(messages, MessageId("edit", t))
    /\ messages[MessageId("edit", t)].senderId # tasks.edit[t].userId
    /\ ~messages[MessageId("edit", t)].isEdited
    /\ RoomSockets(messages[MessageId("edit", t)].senderId) # {}
    /\ \E i \in 1..Len(inbox[tasks.edit[t].conn]) :
         inbox[tasks.edit[t].conn][i] = Event("error", {}, NoUser, "Unauthorized")

\* connection c receives in this step at least one event of kind ev about message id
GetsEvent(c, ev, id) ==
  Cardinality({i \in 1..Len(inbox'[c]) : inbox'[c][i].ev = ev /\ inbox'[c][i].ids = {id}})
    > Cardinality(Received(c, ev, id))

\* C18: the step that completes a successful edit-message emits message-edited to
\* every live connection of the message's sender and to every live connection of
\* its receiver.
C18_EditReachesBothParties ==
  [][\A t \in DOMAIN tasks.edit :
       (tasks.edit[t].pc = "update" /\ tasks'.edit[t].pc = "done")
       => \A c \in RoomSockets(tasks.edit[t].doc.senderId)
                  \cup RoomSockets(tasks.edit[t].doc.receiverId) :
            GetsEvent(c, "message-edited", MessageId("edit", t))]_vars

\* C14: a delete-message request, of either scope, naming a user who is not the
\* message's sender is rejected: its only step ends the request as rejected (or
\* failed by the store), emits an error event to the originating connection and
\* leaves the message's deletedFor and deleteType unchanged.
C14_DeleteByOtherRejected ==
  [][\A t \in DOMAIN tasks.delete :
       (/\ Found(messages, MessageId("delete", t))
        /\ messages[MessageId("delete", t)].senderId # tasks.delete[t].userId
        /\ tasks'.delete[t].pc # tasks.delete[t].pc)
       => /\ tasks.delete[t].pc = "findMessage"
          /\ tasks'.delete[t].pc \in {"rejected", "failed"}
          /\ messages'[MessageId("delete", t)].deletedFor
               = messages[MessageId("delete", t)].deletedFor
          /\ messages'[MessageId("delete", t)].deleteType
               = messages[MessageId("delete", t)].deleteType
          /\ GotOne(tasks.delete[t].conn, "error")]_vars

\* C19: the step that completes a successful delete-message with scope 'both'
\* emits message-deleted to every live connection of the message's sender and of
\* its receiver, whichever of them issued the request.
C19_DeleteBothReachesBothParties ==
  [][\A t \in DOMAIN tasks.delete :
       (tasks.delete[t].pc = "saveBoth" /\ tasks'.delete[t].pc = "done")
       => \A c \in RoomSockets(tasks.delete[t].doc.senderId)
                  \cup RoomSockets(tasks.delete[t].doc.receiverId) :
            GetsEvent(c, "message-deleted", MessageId("delete", t))]_vars

\* C20: the step that completes a successful delete-message with scope 'me' emits
\* message-deleted to every live connection of the requesting user and to no
\* connection of any other user.
C20_DeleteMeReachesRequesterOnly ==
  [][\A t \in DOMAIN tasks.delete :
       (/\ tasks.delete[t].scope = "me"
        /\ tasks.delete[t].pc # "done" /\ tasks'.delete[t].pc = "done")
       => /\ \A c \in RoomSockets(tasks.delete[t].userId) :
               GetsEvent(c, "message-deleted", MessageId("delete", t))
          /\ \A c \in Conns \ (RoomSockets(tasks.delete[t].userId)
                                  \cup {tasks.delete[t].conn}) :
               inbox'[c] = inbox[c]]_vars

\* C15: a send-message whose replyTo resolves to no stored message persists
\* nothing: in every reachable state the replyTo of each stored message is absent
\* or is the id of a stored message.
C15_ReplyToResolves ==
  \A id \in DOMAIN messages :
    messages[id].replyTo = NoId \/ messages[id].replyTo \in DOMAIN messages

\* C16: when a store operation of a send-message has failed, no connection holds
\* an event of that send (receive-message, message-sent, message-status-update):
\* only the error event to the originating connection was emitted.
C16_NoFanoutOnFailure ==
  \A t \in SendTasks :
    tasks.send[t].pc = "failed"
    => \A c \in Conns, ev \in {"receive-message", "message-sent", "message-status-update"} :
         Received(c, ev, t) = {}

\* C17: a send from A to B that arrived when B had a joined live connection, and
\* completes while B has one, completes with the message's status delivered (or
\* seen) and with a message-status-update for it on A's connections, whatever
\* joins and disconnects of B's other connections came before.
C17_OnlineSendIsDelivered ==
  [][\A t \in SendTasks :
       (/\ tasks.send[t].pc # "done" /\ tasks'.send[t].pc = "done"
        /\ tasks.send[t].peerJoined
        /\ RoomSockets(tasks.send[t].peer) # {}
        /\ tasks.send[t].userId # tasks.send[t].peer)
       => /\ messages'[t].status \in {DELIVERED, SEEN}
          /\ \A c \in RoomSockets(tasks.send[t].userId) :
               \E i \in 1..Len(inbox'[c]) :
                 inbox'[c][i] = Event("message-status-update", {t}, NoUser, DELIVERED)]_vars

\* C21: for a send-message with senderId equal to receiverId no connection ever
\* receives receive-message for the message, and once the handler has emitted (it
\* awaits the receiver lookup or is past it) the issuing connection holds the
\* message-sent confirmation.
C21_SelfSendConfirmedOnly ==
  \A t \in SendTasks :
    tasks.send[t].userId = tasks.send[t].peer
    => /\ \A c \in Conns : Received(c, "receive-message", t) = {}
       /\ tasks.send[t].pc \in {"findReceiver", "markDelivered", "done"}
          => Received(tasks.send[t].conn, "message-sent", t) # {}

\* a completed send of A to itself over a connection that is in A's room
C21_Witness ==
  \E t \in SendTasks :
    /\ tasks.send[t].userId = tasks.send[t].peer
    /\ tasks.send[t].pc = "done"
    /\ tasks.send[t].conn \in RoomSockets(tasks.send[t].userId)
    /\ Received(tasks.send[t].conn, "message-sent", t) # {}

\* the messages of the chat-history-loaded event connection c received last
LoadedList(c) == inbox'[c][Len(inbox'[c])].list

\* C22: load-chat-history returns messages visible to the viewer, in ascending
\* timestamp order, as many as are visible up to the cap, and when more than the
\* cap are visible the ones returned are the most recent: no visible message left
\* out is newer than one returned.
C22_HistoryMostRecent ==
  [][\A t \in DOMAIN tasks.history :
       (tasks.history[t].pc = "find" /\ tasks'.history[t].pc = "done")
       => LET visible == HistoryIds(tasks.history[t].userId, tasks.history[t].peer)
              list == LoadedList(tasks.history[t].conn)
              listed == {list[i] : i \in 1..Len(list)}
          IN /\ listed \subseteq visible
             /\ Cardinality(listed) = Len(list)
             /\ Len(list) = IF Cardinality(visible) <= HistoryLimit
                            THEN Cardinality(visible) ELSE HistoryLimit
             /\ \A i \in 1..Len(list) : \A j \in 1..Len(list) :
                  i < j => messages[list[i]].timestamp <= messages[list[j]].timestamp
             /\ \A id \in visible \ listed : \A i \in 1..Len(list) :
                  messages[id].timestamp <= messages[list[i]].timestamp]_vars

NoDisconnectInFlight == \A t \in DOMAIN tasks.disconnect : ~InFlight(tasks.disconnect[t])

\* C23: once every join and disconnect handler has completed, each user's persisted
\* isOnline flag is true exactly when the user has a live connection that has joined
\* the user's room.
C23_PresenceMatchesConnections ==
  (NoJoinInFlight /\ NoDisconnectInFlight)
  => \A u \in DOMAIN users : users[u].isOnline = (RoomSockets(u) # {})

\* C24: a live connection with no join in flight is in no room other than the one of
\* the user it is registered for, so it receives no events targeted at a user it
\* joined for earlier.
C24_OneUserPerConnection ==
  \A c \in Conns :
    (IsOpen(c) /\ \A t \in DOMAIN tasks.join :
                    InFlight(tasks.join[t]) => tasks.join[t].conn # c)
    => sockets[c].rooms \subseteq {sockets[c].userId}

\* C25: a step of a send-message handler whose originating connection has
\* disconnected emits nothing: no connection's received events change.
C25_NoFanoutAfterDisconnect ==
  [][\A t \in SendTasks :
       (tasks'.send[t].pc # tasks.send[t].pc /\ ~IsOpen(tasks.send[t].conn))
       => inbox' = inbox]_vars

Triggers == {"join", "send", "seen", "edit", "delete"}

\* C26: the step in which a trigger fails in the store or is rejected delivers an
\* error event to the originating connection when that connection is still live,
\* and changes no other connection's received events.
C26_FailureSurfacesToOrigin ==
  [][\A k \in Triggers : \A t \in DOMAIN tasks[k] :
       (/\ InFlight(tasks[k][t]) /\ tasks'[k][t].pc \in {"failed", "rejected"}
        /\ IsOpen(tasks[k][t].conn))
       => /\ GotOne(tasks[k][t].conn, "error")
          /\ \A c \in Conns \ {tasks[k][t].conn} : inbox'[c] = inbox[c]]_vars

\* C27: when the only delete requests for a message are two or more requests of one
\* user with scope 'me', and all have completed, the message is as after the first
\* of them: deletedFor lists the user once and deleteType is for_me.
C27_DeleteMeIdempotent ==
  \A id \in DOMAIN messages : \A u \in UserIds :
    (/\ Cardinality(DeletedBy(id, u, "me")) >= 2
     /\ \A t \in DeleteTasks : tasks.delete[t].ids = {id} => t \in DeletedBy(id, u, "me"))
    => /\ messages[id].deletedFor = <<u>>
       /\ messages[id].deleteType = FOR_ME

\* C28: two calls of generateChatRoomId for different unordered pairs of
\* identifiers return different keys.
C28_RoomIdInjective ==
  \A i \in 1..Len(calls), j \in 1..Len(calls) :
    {calls[i].userId1, calls[i].userId2} # {calls[j].userId1, calls[j].userId2}
    => calls[i].result # calls[j].result

\* C29: once every send-message handler has run to completion, each conversation
\* record that has messages refers in lastMessage to a message of the conversation
\* with the greatest timestamp, and lastMessageTime is that message's timestamp.
C29_LastMessageIsNewest ==
  (SendTasks # {} /\ \A t \in SendTasks : tasks.send[t].pc = "done")
  => \A i \in 1..Len(chatRooms) :
       LET ids == {id \in DOMAIN messages : messages[id].chatRoomId = chatRooms[i].chatRoomId}
       IN ids # {}
          => /\ chatRooms[i].lastMessage \in ids
             /\ \A id \in ids :
                  messages[id].timestamp <= messages[chatRooms[i].lastMessage].timestamp
             /\ chatRooms[i].lastMessageTime = messages[chatRooms[i].lastMessage].timestamp

\* C30: a step of a join or disconnect handler, or any other step that changes a
\* connection, leaves every message record unchanged; and the status of a message
\* whose send has completed changes only in the store update of a message-seen
\* that names the message.
C30_JoinLeavesMessages ==
  [][/\ (\/ tasks'.join # tasks.join
         \/ tasks'.disconnect # tasks.disconnect
         \/ sockets' # sockets)
        => messages' = messages
     /\ \A id \in DOMAIN messages :
          (tasks.send[id].pc = "done" /\ messages'[id].status # messages[id].status)
          => \E t \in DOMAIN tasks.seen :
               /\ tasks.seen[t].pc = "updateMany" /\ tasks'.seen[t].pc = "find"
               /\ id \in tasks.seen[t].ids]_vars

\* a message sent while B had no connection still has status sent after B has
\* joined and is marked online
C30_Witness ==
  \E t \in SendTasks :
    /\ tasks.send[t].pc = "done" /\ ~tasks.send[t].peerLive
    /\ tasks.send[t].peer = B
    /\ messages[t].status = SENT
    /\ NoJoinInFlight
    /\ RoomSockets(B) # {} /\ users[B].isOnline

====
